---------------------------- MODULE Spec2Model ----------------------------
(***************************************************************************)
(* Arcade input service: coin-acceptor pulse aggregation and coin-hopper  *)
(* dispense control, as implemented by the program variants kept in the   *)
(* repository.  Every handler of the Node.js event loop is one action     *)
(* (run to completion); timers are pending callbacks that the loop may    *)
(* run at any later step.                                                  *)
(*                                                                         *)
(* variant selects the program:                                            *)
(*   "p004"  src/unnamed/part_004  idle-gap debounce + batch aggregation  *)
(*   "p003"  src/unnamed/part_003  idle-gap debounce, overflow reset,      *)
(*                                 exact table, immediate dispatch; the    *)
(*                                 first program of src/unnamed/part_005   *)
(*                                 (lines 1-264) is the same program       *)
(*                                 without the log-only time stamps        *)
(*   "input" src/src/input.js      (hopper and shutdown text of part_004)  *)
(*   "p000"  src/unnamed/part_000  onoff GPIO hopper                       *)
(***************************************************************************)
EXTENDS Integers, Sequences, FiniteSets, TLC

VARIABLES
    variant,          \* which program of the repository runs
    shuttingDown,     \* let shuttingDown
    exited,           \* process.exit(0) has run: no callback runs any more
    coinPulseCount,   \* let coinPulseCount
    coinIdleTimer,    \* let coinIdleTimer: "null" or the state of the Timeout it holds
    idleOrphans,      \* pending idle timers no variable refers to any more
    batchCredits,     \* let batchCredits
    batchTimer,       \* let batchTimer
    hopperActive,     \* let hopperActive
    hopperTarget,     \* let hopperTarget
    hopperDispensed,  \* let hopperDispensed
    hopperTimeout,    \* let hopperTimeout
    deadlineOrphans,  \* pending deadline timers hopperTimeout no longer refers to
    hopperMonitor,    \* let hopperMonitor: "null" or "proc" (the gpiomon child)
    staleChunks,      \* stdout chunks of killed gpiomon children still to be delivered
    payLine,          \* level of the payout actuator line (HOPPER_PAY_PIN)
    events,           \* every payload handed to dispatch(), in order
    obs,              \* history of the coin path (observation only)
    hop,              \* history of the hopper path (observation only)
    net,              \* the fetch() calls of dispatch: in flight and settled
    call,             \* a call of resolveCoinValue: argument and return value
    now,              \* Date.now(), in ms
    coinPulseTimer,   \* let coinPulseTimer: whether it holds a pending Timeout, and its due time
    lastCoinTime,     \* let lastCoinTime
    exitDue,          \* due time of the process.exit timer of shutdown, NONE before
    wobs              \* history of the window coin path (observation only)

vars == <<variant, shuttingDown, exited, coinPulseCount, coinIdleTimer,
          idleOrphans, batchCredits, batchTimer, hopperActive, hopperTarget,
          hopperDispensed, hopperTimeout, deadlineOrphans, hopperMonitor,
          staleChunks, payLine, events, obs, hop, net, call, now,
          coinPulseTimer, lastCoinTime, exitDue, wobs>>

coinVars == <<coinPulseCount, coinIdleTimer, idleOrphans, batchCredits,
              batchTimer, obs>>

\* the clock and the state of the window coin path (part_000, input.js)
winVars == <<now, coinPulseTimer, lastCoinTime, exitDue, wobs>>

hopperVars == <<hopperActive, hopperTarget, hopperDispensed, hopperTimeout,
                deadlineOrphans, hopperMonitor, staleChunks, payLine, hop>>

-----------------------------------------------------------------------------
(* Bounds of the model *)

\* handleCoinPulse calls explored (on top of the overflow limit in the
\* variant that enforces one, so that an overflowing burst is reached)
MaxPulses == 6

\* startHopper calls explored
MaxStarts == 2

\* largest amount passed to startHopper (the smallest is -1)
MaxAmount == 2

\* lines carried by one stdout chunk of gpiomon
MaxLines == 2

\* consecutive direct stopHopper calls explored
MaxStops == 2

\* stdout chunks a killed gpiomon child may still deliver
MaxStale == 1

\* largest pulse count passed to resolveCoinValue
MaxCount == 60

\* handleCoinPulse calls, startHopper calls and consecutive direct
\* stopHopper calls explored together with the settling of the POSTs
MaxNetPulses == 1
MaxNetStarts == 1
MaxNetStops == 1

\* coin pulses and dispatching button presses explored together with the
\* joystick of part_004
MaxJoyPulses == 1
MaxPresses == 1

\* the window coin path: handleCoinPulse calls explored, clock ticks per
\* COIN_PULSE_WINDOW_MS, and clock ticks explored
MaxWinPulses == 10
TicksPerWindow == 4
MaxTicks == 12

-----------------------------------------------------------------------------
(* Program constants *)

COIN_IDLE_GAP_MS_004 == 60
COIN_BATCH_GAP_MS == 120
MAX_PULSES_PER_COIN_004 == 25
PULSE_TOLERANCE == 2
COIN_IDLE_GAP_MS_003 == 350
MAX_PULSES_PER_COIN_003 == 20
HOPPER_TIMEOUT_MS == 15000
EXIT_DELAY_MS == 50

\* the window coin path of src/src/input.js
COIN_PULSE_WINDOW_MS_input == 3000
MIN_COIN_INTERVAL_MS_input == 1500
MAX_PULSES_PER_COIN_input == 20

\* the window coin path of part_000
COIN_PULSE_WINDOW_MS_000 == 400
MIN_COIN_INTERVAL_MS_000 == 700
MAX_PULSES_PER_COIN_000 == 12

\* COIN_DENOMINATIONS of part_004, in source order
COIN_DENOMINATIONS ==
    << [pulses |-> 5,  value |-> 5],
       [pulses |-> 10, value |-> 10],
       [pulses |-> 20, value |-> 20] >>

\* COIN_PULSE_MAP of part_003
COIN_PULSE_MAP == [p \in {5, 10, 20} |-> p]

\* null / undefined of a lookup
NONE == 0 - 1

GapVariants == {"p004", "p003"}
SpawnVariants == {"p004", "p003", "input"}
WindowVariants == {"input", "p000"}
Variants == {"p004", "p003", "input", "p000"}

-----------------------------------------------------------------------------
(* Timers.  A timer variable holds "null", or a Timeout object that is     *)
(* "live" (pending), "late" (pending, but due after the exit that shutdown *)
(* scheduled, so it never runs) or "stale" (already run or cleared).       *)

Truthy(h) == h # "null"

Pending(h) == h \in {"live", "late"}

\* setTimeout(cb, delay): once shutdown has scheduled process.exit in
\* EXIT_DELAY_MS, a timer armed with a longer delay cannot run before it.
setTimeout(delay) ==
    IF shuttingDown /\ delay > EXIT_DELAY_MS THEN "late" ELSE "live"

-----------------------------------------------------------------------------
(* Dispatch *)

\* dispatch without its "if (shuttingDown) return"
dispatch_noGuard(log, payload) ==
    Append(log, [type |-> payload.type, value |-> payload.value,
                 sent |-> TRUE])

\* dispatch(payload): returns at once when shuttingDown, else POSTs the
\* payload (a failed POST is logged only).  sent records which of the two.
dispatch(log, payload) ==
    Append(log, [type |-> payload.type, value |-> payload.value,
                 sent |-> ~shuttingDown])

\* the POSTs of dispatch: fetch() calls awaited, fetch() calls settled, and
\* whether the last one settled resolved (TRUE) or threw (FALSE)
NoNet == [inflight |-> 0, settled |-> 0, lastOk |-> TRUE]

Sent(e) == e.sent

\* every payload a step handed to dispatch while ~shuttingDown started one
\* fetch(), which settles in a later turn of the event loop
NetAfter ==
    [net EXCEPT !.inflight =
        @ + Len(SelectSeq(SubSeq(events', Len(events) + 1, Len(events')),
                          Sent))]

\* what a handler leaves of the dispatch and resolver bookkeeping
Post == net' = NetAfter /\ call' = call

\* the same for a handler that reads no clock and touches no window state
Wire == Post /\ UNCHANGED winVars

RECURSIVE SumSeq(_)
SumSeq(s) == IF s = <<>> THEN 0 ELSE Head(s) + SumSeq(Tail(s))

RECURSIVE SumCredits(_)
SumCredits(log) ==
    IF log = <<>> THEN 0
    ELSE (IF Head(log).type = "COIN" THEN Head(log).value ELSE 0)
         + SumCredits(Tail(log))

Last(s) == s[Len(s)]

-----------------------------------------------------------------------------
(* Credit resolution *)

Abs(x) == IF x < 0 THEN 0 - x ELSE x

\* the for-loop of resolveCoinValue from denomination i on; best = NONE
\* stands for best = null, bestDelta = Infinity
RECURSIVE resolveLoop(_, _, _, _)
resolveLoop(pulses, i, best, bestDelta) ==
    IF i > Len(COIN_DENOMINATIONS) THEN best
    ELSE LET coin  == COIN_DENOMINATIONS[i]
             delta == Abs(pulses - coin.pulses)
         IN  IF delta <= PULSE_TOLERANCE /\ (best = NONE \/ delta < bestDelta)
             THEN resolveLoop(pulses, i + 1, coin.value, delta)
             ELSE resolveLoop(pulses, i + 1, best, bestDelta)

\* a resolver that accepts the nominal counts only
resolveCoinValue_exact(pulses) ==
    IF pulses \in DOMAIN COIN_PULSE_MAP THEN COIN_PULSE_MAP[pulses] ELSE NONE

resolveCoinValue(pulses) == resolveLoop(pulses, 1, NONE, 0)

\* a table lookup that accepts counts near a key
lookupCoinPulseMap_tolerant(pulses) == resolveCoinValue(pulses)

\* COIN_PULSE_MAP[pulses], undefined for a count that is no key
lookupCoinPulseMap(pulses) ==
    IF pulses \in DOMAIN COIN_PULSE_MAP THEN COIN_PULSE_MAP[pulses] ELSE NONE

\* no call of resolveCoinValue has been made
NoCall == [arg |-> 0, done |-> FALSE, ret |-> NONE]

\* the Credit Resolver of the running variant, and JavaScript's !credits
Resolve(pulses) ==
    IF variant = "p004" THEN resolveCoinValue(pulses)
    ELSE lookupCoinPulseMap(pulses)

Falsy(credits) == credits = NONE \/ credits = 0

-----------------------------------------------------------------------------
(* Initial state: the module-level lets, after startUsbEncoder() *)

InitObs ==
    [ pulses    |-> 0,      \* handleCoinPulse calls that passed the shuttingDown guard
      seqLen    |-> 0,      \* such calls since the coin path was last quiescent
      seqOk     |-> TRUE,   \* no idle timer ran between two calls of that sequence
      fires     |-> 0,      \* idle-timer callbacks run since the last call
      lastFinal |-> 0,      \* pulse count taken by the last of them
      spaced    |-> TRUE,   \* every call so far found no idle timer pending
      groups    |-> 0,      \* while spaced: number of finalizeCoin runs
      notOne    |-> FALSE,  \* while spaced: some run took a count other than 1
      added     |-> 0,      \* total credit value accepted by finalizeCoin
      batch     |-> <<>>,   \* values added to batchCredits since the last flush
      lastBatch |-> <<>>,   \* the values the last flush covered
      flushes   |-> 0,      \* flushBatch runs that emitted
      open      |-> 0 ]     \* such calls since the last finalizeCoin or overflow reset

InitHop ==
    [ startCalls |-> 0,     \* startHopper calls
      sessions   |-> 0,     \* of these, the ones that opened a session
      lastAmount |-> 0,     \* the amount passed to the last startHopper call
      stopRun    |-> 0,     \* direct stopHopper calls in a row, most recently
      sessBase   |-> 0,     \* length of events when the last session opened
      sessLow    |-> 0,     \* payout-low operations issued by stopHopper since then
      sessHigh   |-> 0,     \* payout-high operations issued since then
      sessArmed  |-> 0,     \* deadline timers scheduled since then
      sessFired  |-> 0,     \* deadline callbacks run since then
      sessMon    |-> 0,     \* gpiomon children spawned since then
      sessDelay  |-> 0,     \* delay of the deadline timer last scheduled
      sessCounted |-> 0,    \* coin-outs counted since the last session opened
      lastLines  |-> 0,     \* coin-out lines the last call delivered (0: it was no delivery)
      lastStale  |-> FALSE ] \* the last call delivered a chunk of a killed gpiomon child

\* Date.now() when the program starts.  Any real value is far above
\* MIN_COIN_INTERVAL_MS; this one fits the model checker's integers.
BootTime == 1000000

\* coinPulseTimer = null
NoTimer == [set |-> FALSE, due |-> 0]

InitWobs ==
    [ pulses      |-> 0,      \* handleCoinPulse calls that passed the shuttingDown guard
      firstAt     |-> NONE,   \* Date.now() of the call that armed the pending timer
      open        |-> 0,      \* such calls since the last timer callback
      arms        |-> 0,      \* setTimeout calls of handleCoinPulse since then
      fires       |-> 0,      \* timer callbacks run
      lastFireAt  |-> NONE,   \* Date.now() of the last of them
      lastGap     |-> NONE,   \* time between the last two of them
      lastGroup   |-> 0,      \* pulse count the last of them took
      lastOutcome |-> "none", \* which return it took: "over", "early", "unknown", "coin"
      coinGap     |-> NONE ]  \* time between the last two COIN payloads

InitState ==
    /\ shuttingDown = FALSE
    /\ exited = FALSE
    /\ coinPulseCount = 0
    /\ coinIdleTimer = "null"
    /\ idleOrphans = 0
    /\ batchCredits = 0
    /\ batchTimer = "null"
    /\ hopperActive = FALSE
    /\ hopperTarget = 0
    /\ hopperDispensed = 0
    /\ hopperTimeout = "null"
    /\ deadlineOrphans = 0
    /\ hopperMonitor = "null"
    /\ staleChunks = 0
    /\ payLine = 0
    /\ events = <<>>
    /\ obs = InitObs
    /\ hop = InitHop
    /\ net = NoNet
    /\ now = BootTime
    /\ coinPulseTimer = NoTimer
    /\ lastCoinTime = 0
    /\ exitDue = NONE
    /\ wobs = InitWobs

Init == variant \in Variants /\ InitState /\ call = NoCall


-----------------------------------------------------------------------------
(* Coin path: observation updates *)

IdlePending == coinIdleTimer = "live" \/ idleOrphans > 0

\* a handleCoinPulse call that passed the shuttingDown guard
ObsPulse ==
    [obs EXCEPT !.pulses = @ + 1,
                !.open = @ + 1,
                !.seqLen = IF IdlePending THEN @ + 1 ELSE 1,
                !.seqOk = IF IdlePending THEN @ /\ obs.fires = 0 ELSE TRUE,
                !.fires = 0,
                !.lastFinal = 0,
                !.spaced = @ /\ ~IdlePending,
                !.groups = IF obs.spaced /\ ~IdlePending THEN @ ELSE 0,
                !.notOne = IF obs.spaced /\ ~IdlePending THEN @ ELSE FALSE]

\* an idle-timer callback that took the count pulses
ObsFinal(pulses) ==
    [obs EXCEPT !.fires = @ + 1,
                !.open = 0,
                !.lastFinal = pulses,
                !.groups = IF obs.spaced THEN @ + 1 ELSE 0,
                !.notOne = obs.spaced /\ (@ \/ pulses # 1)]

-----------------------------------------------------------------------------
(* Coin path: part_004 (idle gap, batch aggregation) and part_003          *)
(* (idle gap, overflow reset, exact table)                                 *)

\* The idle timers the event loop may run next.  All idle timers have the
\* same delay, so they run in the order they were armed: a timer that lost
\* its variable (an orphan) was armed before the one the variable holds.
\* Each choice gives the timer variable and the orphans left once the
\* timer is taken off the loop.
IdleFireChoices ==
    (IF idleOrphans > 0
     THEN {[h |-> coinIdleTimer, o |-> idleOrphans - 1]} ELSE {})
    \cup
    (IF idleOrphans = 0 /\ coinIdleTimer = "live"
     THEN {[h |-> "stale", o |-> 0]} ELSE {})

\* resetCoin() that forgets coinPulseCount = 0
resetCoin_keepCount(h, o) ==
    /\ coinPulseCount' = coinPulseCount
    /\ coinIdleTimer' = "null"
    /\ idleOrphans' = o + (IF Pending(h) THEN 1 ELSE 0)

\* resetCoin(): the timer variable is set to null without clearTimeout, so
\* a Timeout it still held pending stays on the loop.  (lastPulseTime and
\* coinStartTime feed log lines only and are not modelled.)
resetCoin(h, o) ==
    /\ coinPulseCount' = 0
    /\ coinIdleTimer' = "null"
    /\ idleOrphans' = o + (IF Pending(h) THEN 1 ELSE 0)

\* handleCoinPulse that arms a new idle timer without clearing the old one
handleCoinPulse_004_noClear ==
    /\ variant = "p004" /\ ~exited
    /\ IF shuttingDown THEN UNCHANGED vars
       ELSE /\ coinPulseCount' = coinPulseCount + 1
            /\ coinIdleTimer' = setTimeout(COIN_IDLE_GAP_MS_004)
            /\ idleOrphans' = idleOrphans
                                + (IF Pending(coinIdleTimer) THEN 1 ELSE 0)
            /\ obs' = ObsPulse
            /\ UNCHANGED <<variant, shuttingDown, exited,
                           batchCredits, batchTimer, events>>
            /\ UNCHANGED hopperVars

\* part_004 handleCoinPulse (the overflow reset is commented out there)
handleCoinPulse_004 ==
    /\ variant = "p004" /\ ~exited
    /\ IF shuttingDown THEN UNCHANGED vars
       ELSE /\ coinPulseCount' = coinPulseCount + 1
            /\ coinIdleTimer' = setTimeout(COIN_IDLE_GAP_MS_004)
            /\ obs' = ObsPulse
            /\ UNCHANGED <<variant, shuttingDown, exited, idleOrphans,
                           batchCredits, batchTimer, events>>
            /\ UNCHANGED hopperVars

\* const JOYSTICK_BUTTON_MAP: the action of a button number, "" where the
\* object has no such key (the lookup gives undefined)
JOYSTICK_BUTTON_MAP ==
    [n \in 0 .. 9 |->
        CASE n = 0 -> "SPIN"
          [] n = 1 -> "BET_DOWN"
          [] n = 2 -> "BET_UP"
          [] n = 3 -> "AUTO"
          [] n = 4 -> "COIN"
          [] n = 5 -> "WITHDRAW"
          [] n = 6 -> "TURBO"
          [] n = 8 -> "MENU"
          [] n = 9 -> "START"
          [] OTHER -> ""]

\* button numbers explored: one plain action, the coin button, the
\* withdraw button and a number without an action
Buttons == {0, 4, 5, 7}

\* the joystick 'button' handler of part_004 for the event
\* {number, value}: value 1 is a press, 0 a release
joystickButton_004(number, value) ==
    LET action == JOYSTICK_BUTTON_MAP[number]
    IN  /\ variant = "p004" /\ ~exited
        /\ IF shuttingDown \/ value # 1 THEN UNCHANGED vars
           ELSE IF action = "" THEN UNCHANGED vars
           ELSE IF action = "COIN" THEN handleCoinPulse_004
           ELSE /\ events' = dispatch(events,
                        IF action = "WITHDRAW"
                        THEN [type |-> "WITHDRAW_REQUEST", value |-> NONE]
                        ELSE [type |-> "ACTION", value |-> action])
                /\ UNCHANGED <<variant, shuttingDown, exited>>
                /\ UNCHANGED coinVars
                /\ UNCHANGED hopperVars

\* finalizeCoin that overwrites batchCredits instead of adding to it
finalizeCoin_004_overwrite(h, o) ==
    LET pulses == coinPulseCount
    IN  /\ resetCoin(h, o)
        /\ batchCredits' = pulses
        /\ batchTimer' = setTimeout(COIN_BATCH_GAP_MS)
        /\ obs' = [ObsFinal(pulses) EXCEPT !.added = @ + pulses,
                                           !.batch = Append(@, pulses)]
        /\ UNCHANGED events

\* finalizeCoin that forgets to arm the batch timer
finalizeCoin_004_noArm(h, o) ==
    LET pulses == coinPulseCount
    IN  /\ resetCoin(h, o)
        /\ batchCredits' = batchCredits + pulses
        /\ batchTimer' = batchTimer
        /\ obs' = [ObsFinal(pulses) EXCEPT !.added = @ + pulses,
                                           !.batch = Append(@, pulses)]
        /\ UNCHANGED events

\* part_004 finalizeCoin, run by the idle timer: every count is accepted
\* at face value (the resolveCoinValue call is commented out)
finalizeCoin_004(h, o) ==
    LET pulses == coinPulseCount
    IN  /\ resetCoin(h, o)
        /\ batchCredits' = batchCredits + pulses
        /\ batchTimer' = setTimeout(COIN_BATCH_GAP_MS)
        /\ obs' = [ObsFinal(pulses) EXCEPT !.added = @ + pulses,
                                           !.batch = Append(@, pulses)]
        /\ UNCHANGED events

coinIdleTimerFires_004 ==
    /\ variant = "p004" /\ ~exited
    /\ \E c \in IdleFireChoices : finalizeCoin_004(c.h, c.o)
    /\ UNCHANGED <<variant, shuttingDown, exited>>
    /\ UNCHANGED hopperVars

\* flushBatch that dispatches the batch twice
flushBatch_twice ==
    /\ variant = "p004" /\ ~exited
    /\ batchTimer = "live"
    /\ IF batchCredits <= 0
       THEN /\ batchTimer' = "stale"
            /\ UNCHANGED <<batchCredits, events, obs>>
       ELSE /\ events' = dispatch(dispatch(events,
                              [type |-> "COIN", value |-> batchCredits]),
                              [type |-> "COIN", value |-> batchCredits])
            /\ batchCredits' = 0
            /\ batchTimer' = "null"
            /\ obs' = [obs EXCEPT !.lastBatch = obs.batch, !.batch = <<>>,
                                  !.flushes = @ + 1]
    /\ UNCHANGED <<variant, shuttingDown, exited, coinPulseCount,
                   coinIdleTimer, idleOrphans>>
    /\ UNCHANGED hopperVars

\* flushBatch that forgets batchCredits = 0
flushBatch_keepCredits ==
    /\ variant = "p004" /\ ~exited
    /\ batchTimer = "live"
    /\ IF batchCredits <= 0
       THEN /\ batchTimer' = "stale"
            /\ UNCHANGED <<batchCredits, events, obs>>
       ELSE /\ events' = dispatch(events, [type |-> "COIN", value |-> batchCredits])
            /\ batchCredits' = batchCredits
            /\ batchTimer' = "null"
            /\ obs' = [obs EXCEPT !.lastBatch = obs.batch, !.batch = <<>>,
                                  !.flushes = @ + 1]
    /\ UNCHANGED <<variant, shuttingDown, exited, coinPulseCount,
                   coinIdleTimer, idleOrphans>>
    /\ UNCHANGED hopperVars

\* part_004 flushBatch, run by the batch timer
flushBatch ==
    /\ variant = "p004" /\ ~exited
    /\ batchTimer = "live"
    /\ IF batchCredits <= 0
       THEN /\ batchTimer' = "stale"
            /\ UNCHANGED <<batchCredits, events, obs>>
       ELSE /\ events' = dispatch(events, [type |-> "COIN", value |-> batchCredits])
            /\ batchCredits' = 0
            /\ batchTimer' = "null"
            /\ obs' = [obs EXCEPT !.lastBatch = obs.batch, !.batch = <<>>,
                                  !.flushes = @ + 1]
    /\ UNCHANGED <<variant, shuttingDown, exited, coinPulseCount,
                   coinIdleTimer, idleOrphans>>
    /\ UNCHANGED hopperVars

\* part_003 handleCoinPulse
handleCoinPulse_003 ==
    /\ variant = "p003" /\ ~exited
    /\ IF shuttingDown THEN UNCHANGED vars
       ELSE /\ IF coinPulseCount + 1 > MAX_PULSES_PER_COIN_003
               THEN /\ resetCoin(coinIdleTimer, idleOrphans)
                    /\ obs' = [ObsPulse EXCEPT !.open = 0]
               ELSE /\ coinPulseCount' = coinPulseCount + 1
                    /\ coinIdleTimer' = setTimeout(COIN_IDLE_GAP_MS_003)
                    /\ UNCHANGED idleOrphans
                    /\ obs' = ObsPulse
            /\ UNCHANGED <<variant, shuttingDown, exited, batchCredits,
                           batchTimer, events>>
            /\ UNCHANGED hopperVars

\* part_003 finalizeCoin, run by the idle timer
finalizeCoin_003(h, o) ==
    LET pulses  == coinPulseCount
        credits == lookupCoinPulseMap(pulses)
    IN  /\ resetCoin(h, o)
        /\ IF Falsy(credits)
           THEN /\ obs' = ObsFinal(pulses)
                /\ UNCHANGED events
           ELSE /\ obs' = [ObsFinal(pulses) EXCEPT !.added = @ + credits]
                /\ events' = dispatch(events, [type |-> "COIN", value |-> credits])
        /\ UNCHANGED <<batchCredits, batchTimer>>

coinIdleTimerFires_003 ==
    /\ variant = "p003" /\ ~exited
    /\ \E c \in IdleFireChoices : finalizeCoin_003(c.h, c.o)
    /\ UNCHANGED <<variant, shuttingDown, exited>>
    /\ UNCHANGED hopperVars

-----------------------------------------------------------------------------
(* Hopper path.  A handler may call stopHopper in the middle of its own    *)
(* work, so the hopper handlers are written as functions from the hopper   *)
(* state at entry to the hopper state at return.                           *)

HopperNow ==
    [ active    |-> hopperActive,
      target    |-> hopperTarget,
      dispensed |-> hopperDispensed,
      timeout   |-> hopperTimeout,
      orphans   |-> deadlineOrphans,
      monitor   |-> hopperMonitor,
      stale     |-> staleChunks,
      pay       |-> payLine,
      log       |-> events,
      hop       |-> hop ]

SetHopper(st) ==
    /\ hopperActive' = st.active
    /\ hopperTarget' = st.target
    /\ hopperDispensed' = st.dispensed
    /\ hopperTimeout' = st.timeout
    /\ deadlineOrphans' = st.orphans
    /\ hopperMonitor' = st.monitor
    /\ staleChunks' = st.stale
    /\ payLine' = st.pay
    /\ events' = st.log
    /\ hop' = st.hop

\* hopperMonitor?.kill(): chunks the child already wrote may still reach
\* the 'data' handler, which stays registered on its stdout
killMonitor(st) ==
    IF st.monitor = "proc" THEN MaxStale ELSE st.stale

\* hopperTimeout = setTimeout(...) assigns over whatever the variable
\* held: a Timeout still pending there stays on the loop, unreferenced
armOver(st) == st.orphans + (IF Pending(st.timeout) THEN 1 ELSE 0)

\* the delay startHopper(amount) passes to setTimeout for the deadline
hopperDeadlineMs(amount) == HOPPER_TIMEOUT_MS

\* stopHopper without its "if (!hopperActive) return"
stopHopper_noGuard(st) ==
    [st EXCEPT
       !.pay = 0,
       !.active = FALSE,
       !.stale = killMonitor(st),
       !.monitor = "null",
       !.timeout = "null",
       !.log = dispatch(@, [type |-> "WITHDRAW_COMPLETE",
                            value |-> st.dispensed]),
       !.hop = [@ EXCEPT !.sessLow = @ + 1]]

\* stopHopper that leaves the deadline timer armed
stopHopper_keepTimer(st) ==
    IF ~st.active THEN st
    ELSE [st EXCEPT
            !.pay = 0,
            !.active = FALSE,
            !.stale = killMonitor(st),
            !.monitor = "null",
            !.log = dispatch(@, [type |-> "WITHDRAW_COMPLETE",
                                 value |-> st.dispensed]),
            !.hop = [@ EXCEPT !.sessLow = @ + 1]]

\* stopHopper that sets hopperTimeout = null without clearTimeout
stopHopper_nullNoClear(st) ==
    IF ~st.active THEN st
    ELSE [st EXCEPT
            !.pay = 0,
            !.active = FALSE,
            !.stale = killMonitor(st),
            !.monitor = "null",
            !.orphans = armOver(st),
            !.timeout = "null",
            !.log = dispatch(@, [type |-> "WITHDRAW_COMPLETE",
                                 value |-> st.dispensed]),
            !.hop = [@ EXCEPT !.sessLow = @ + 1]]

\* stopHopper() of the gpioset/gpiomon variants
stopHopper(st) ==
    IF ~st.active THEN st
    ELSE [st EXCEPT
            !.pay = 0,
            !.active = FALSE,
            !.stale = killMonitor(st),
            !.monitor = "null",
            !.timeout = "null",
            !.log = dispatch(@, [type |-> "WITHDRAW_COMPLETE",
                                 value |-> st.dispensed]),
            !.hop = [@ EXCEPT !.sessLow = @ + 1]]

\* startHopper that checks shuttingDown only
startHopperFrom_noActiveGuard(st, amount) ==
    IF shuttingDown THEN st
    ELSE [st EXCEPT
            !.active = TRUE,
            !.target = amount,
            !.dispensed = 0,
            !.pay = 1,
            !.monitor = "proc",
            !.orphans = armOver(st),
            !.timeout = setTimeout(hopperDeadlineMs(amount)),
            !.hop = [@ EXCEPT !.sessions = @ + 1,
                              !.sessCounted = 0,
                              !.sessBase = Len(st.log),
                              !.sessLow = 0, !.sessHigh = @ + 1,
                              !.sessArmed = @ + 1, !.sessFired = 0,
                              !.sessMon = @ + 1,
                              !.sessDelay = hopperDeadlineMs(amount)]]

\* startHopper that leaves hopperDispensed as the last session left it
startHopperFrom_keepCount(st, amount) ==
    IF shuttingDown \/ st.active THEN st
    ELSE [st EXCEPT
            !.active = TRUE,
            !.target = amount,
            !.dispensed = @,
            !.pay = 1,
            !.monitor = "proc",
            !.orphans = armOver(st),
            !.timeout = setTimeout(hopperDeadlineMs(amount)),
            !.hop = [@ EXCEPT !.sessions = @ + 1,
                              !.sessCounted = 0,
                              !.sessBase = Len(st.log),
                              !.sessLow = 0, !.sessHigh = 1,
                              !.sessArmed = 1, !.sessFired = 0,
                              !.sessMon = 1,
                              !.sessDelay = hopperDeadlineMs(amount)]]

\* startHopper that checks hopperActive only
startHopperFrom_noShutdownGuard(st, amount) ==
    IF st.active THEN st
    ELSE [st EXCEPT
            !.active = TRUE,
            !.target = amount,
            !.dispensed = 0,
            !.pay = 1,
            !.monitor = "proc",
            !.orphans = armOver(st),
            !.timeout = setTimeout(hopperDeadlineMs(amount)),
            !.hop = [@ EXCEPT !.sessions = @ + 1,
                              !.sessCounted = 0,
                              !.sessBase = Len(st.log),
                              !.sessLow = 0, !.sessHigh = 1,
                              !.sessArmed = 1, !.sessFired = 0,
                              !.sessMon = 1,
                              !.sessDelay = hopperDeadlineMs(amount)]]

\* startHopper(amount) of the gpioset/gpiomon variants
startHopperFrom(st, amount) ==
    IF shuttingDown \/ st.active THEN st
    ELSE [st EXCEPT
            !.active = TRUE,
            !.target = amount,
            !.dispensed = 0,
            !.pay = 1,
            !.monitor = "proc",
            !.orphans = armOver(st),
            !.timeout = setTimeout(hopperDeadlineMs(amount)),
            !.hop = [@ EXCEPT !.sessions = @ + 1,
                              !.sessCounted = 0,
                              !.sessBase = Len(st.log),
                              !.sessLow = 0, !.sessHigh = 1,
                              !.sessArmed = 1, !.sessFired = 0,
                              !.sessMon = 1,
                              !.sessDelay = hopperDeadlineMs(amount)]]

\* a 'data' handler that counts every line of the chunk, without the
\* "if (!hopperActive) break"
RECURSIVE onMonitorData_noActiveCheck(_, _)
onMonitorData_noActiveCheck(st, n) ==
    IF n = 0 THEN st
    ELSE LET counted == [st EXCEPT !.dispensed = @ + 1,
                                   !.hop.sessCounted = @ + 1]
         IN  onMonitorData_noActiveCheck(
                 IF counted.dispensed >= counted.target
                 THEN stopHopper(counted) ELSE counted,
                 n - 1)

\* the 'data' handler of hopperMonitor.stdout: one pass of its for-loop
\* per line of the chunk, n lines left
RECURSIVE onMonitorData(_, _)
onMonitorData(st, n) ==
    IF n = 0 \/ ~st.active THEN st
    ELSE LET counted == [st EXCEPT !.dispensed = @ + 1,
                                   !.hop.sessCounted = @ + 1]
         IN  onMonitorData(IF counted.dispensed >= counted.target
                           THEN stopHopper(counted) ELSE counted,
                           n - 1)

\* a call of a hopper operation other than a direct stopHopper call ends
\* a run of direct stopHopper calls
NoteCall(st) ==
    [st EXCEPT !.hop.stopRun = 0, !.hop.lastLines = 0, !.hop.lastStale = FALSE]

startHopper(amount) ==
    /\ variant \in SpawnVariants /\ ~exited
    /\ SetHopper(startHopperFrom(
           [NoteCall(HopperNow) EXCEPT !.hop.startCalls = @ + 1,
                                       !.hop.lastAmount = amount], amount))
    /\ UNCHANGED <<variant, shuttingDown, exited, coinPulseCount,
                   coinIdleTimer, idleOrphans, batchCredits, batchTimer, obs>>

\* stopHopper() called from outside a handler
stopHopperCall ==
    /\ variant \in SpawnVariants /\ ~exited
    /\ SetHopper(stopHopper([HopperNow EXCEPT !.hop.stopRun = @ + 1,
                                              !.hop.lastLines = 0,
                                              !.hop.lastStale = FALSE]))
    /\ UNCHANGED <<variant, shuttingDown, exited, coinPulseCount,
                   coinIdleTimer, idleOrphans, batchCredits, batchTimer, obs>>

\* a stdout chunk of lines lines from the running gpiomon child
hopperMonitorData(lines) ==
    /\ variant \in SpawnVariants /\ ~exited
    /\ hopperMonitor = "proc"
    /\ SetHopper(onMonitorData(
           [NoteCall(HopperNow) EXCEPT !.hop.lastLines = lines], lines))
    /\ UNCHANGED <<variant, shuttingDown, exited, coinPulseCount,
                   coinIdleTimer, idleOrphans, batchCredits, batchTimer, obs>>

\* a stdout chunk left over from a gpiomon child that was killed
hopperStaleData(lines) ==
    /\ variant \in SpawnVariants /\ ~exited
    /\ staleChunks > 0
    /\ SetHopper(onMonitorData(
           [NoteCall(HopperNow) EXCEPT !.stale = @ - 1,
                                       !.hop.lastLines = lines,
                                       !.hop.lastStale = TRUE], lines))
    /\ UNCHANGED <<variant, shuttingDown, exited, coinPulseCount,
                   coinIdleTimer, idleOrphans, batchCredits, batchTimer, obs>>

\* The deadline timers all have the same delay, so they run in the order
\* they were armed: one that lost its variable runs before the one the
\* variable holds.  The hopper state once the next one is off the loop.
deadlineTaken(st) ==
    [IF st.orphans > 0 THEN [st EXCEPT !.orphans = @ - 1]
                       ELSE [st EXCEPT !.timeout = "stale"]
       EXCEPT !.hop.sessFired = @ + 1]

DeadlinePending == hopperTimeout = "live" \/ deadlineOrphans > 0

\* a deadline callback that only logs the jam
onHopperTimeout_noStop(st) == st

\* the deadline callback armed by startHopper
onHopperTimeout(st) == stopHopper(st)

hopperTimeoutFires ==
    /\ variant \in SpawnVariants /\ ~exited
    /\ DeadlinePending
    /\ SetHopper(onHopperTimeout(deadlineTaken(NoteCall(HopperNow))))
    /\ UNCHANGED <<variant, shuttingDown, exited, coinPulseCount,
                   coinIdleTimer, idleOrphans, batchCredits, batchTimer, obs>>

-----------------------------------------------------------------------------
(* Hopper path of part_000 (onoff).  hopperPay.writeSync may throw; lowOk  *)
(* and highOk say whether the write of 0 / of 1 went through.              *)

\* stopHopper() of part_000
stopHopper_000(st, lowOk) ==
    IF ~st.active THEN st
    ELSE [st EXCEPT
            !.pay = IF lowOk THEN 0 ELSE @,
            !.active = FALSE,
            !.timeout = "null",
            !.log = dispatch(@, [type |-> "WITHDRAW_COMPLETE",
                                 value |-> st.dispensed]),
            !.hop = [@ EXCEPT !.sessLow = @ + 1]]

\* startHopper of part_000 whose catch block lacks the "return": the
\* deadline is armed after the failed enable too
startHopperFrom_000_armAnyway(st, amount, highOk, lowOk) ==
    IF shuttingDown \/ st.active THEN st
    ELSE LET opened ==
                 [st EXCEPT
                    !.active = TRUE,
                    !.target = amount,
                    !.dispensed = 0,
                    !.hop = [@ EXCEPT !.sessions = @ + 1,
                                      !.sessCounted = 0,
                                      !.sessBase = Len(st.log),
                                      !.sessLow = 0, !.sessHigh = 1,
                                      !.sessArmed = 0, !.sessFired = 0,
                                      !.sessMon = 0]]
             tried == IF highOk THEN [opened EXCEPT !.pay = 1]
                      ELSE stopHopper_000(opened, lowOk)
         IN  [tried EXCEPT !.orphans = armOver(tried),
                           !.timeout = setTimeout(hopperDeadlineMs(amount)),
                           !.hop.sessArmed = 1,
                           !.hop.sessDelay = hopperDeadlineMs(amount)]

\* startHopper(amount) of part_000
startHopperFrom_000(st, amount, highOk, lowOk) ==
    IF shuttingDown \/ st.active THEN st
    ELSE LET opened ==
                 [st EXCEPT
                    !.active = TRUE,
                    !.target = amount,
                    !.dispensed = 0,
                    !.hop = [@ EXCEPT !.sessions = @ + 1,
                                      !.sessCounted = 0,
                                      !.sessBase = Len(st.log),
                                      !.sessLow = 0, !.sessHigh = 1,
                                      !.sessArmed = 0, !.sessFired = 0,
                                      !.sessMon = 0]]
         IN  IF highOk
             THEN [opened EXCEPT !.pay = 1,
                                 !.orphans = armOver(st),
                                 !.timeout = setTimeout(hopperDeadlineMs(amount)),
                                 !.hop.sessArmed = 1,
                                 !.hop.sessDelay = hopperDeadlineMs(amount)]
             ELSE stopHopper_000(opened, lowOk)

\* a watch callback that stops the session on the first coin, whatever the
\* target
onCoinOut_000_stopFirst(st, lowOk) ==
    IF shuttingDown \/ ~st.active THEN st
    ELSE stopHopper_000([st EXCEPT !.dispensed = @ + 1,
                                   !.hop.sessCounted = @ + 1], lowOk)

\* a watch callback that checks shuttingDown only
onCoinOut_000_noActiveCheck(st, lowOk) ==
    IF shuttingDown THEN st
    ELSE LET counted == [st EXCEPT !.dispensed = @ + 1,
                                   !.hop.sessCounted = @ + 1]
         IN  IF counted.dispensed >= counted.target
             THEN stopHopper_000(counted, lowOk) ELSE counted

\* the hopperCount.watch callback of part_000
onCoinOut_000(st, lowOk) ==
    IF shuttingDown \/ ~st.active THEN st
    ELSE LET counted == [st EXCEPT !.dispensed = @ + 1,
                                   !.hop.sessCounted = @ + 1]
         IN  IF counted.dispensed >= counted.target
             THEN stopHopper_000(counted, lowOk) ELSE counted

\* hopperPay.unexport() in shutdown makes every later write throw
WriteOutcomes == IF shuttingDown THEN {FALSE} ELSE BOOLEAN

startHopper_000(amount) ==
    /\ variant = "p000" /\ ~exited
    /\ \E highOk \in WriteOutcomes, lowOk \in WriteOutcomes :
          SetHopper(startHopperFrom_000(
              [NoteCall(HopperNow) EXCEPT !.hop.startCalls = @ + 1,
                                          !.hop.lastAmount = amount],
              amount, highOk, lowOk))
    /\ UNCHANGED <<variant, shuttingDown, exited, coinPulseCount,
                   coinIdleTimer, idleOrphans, batchCredits, batchTimer, obs>>

stopHopperCall_000 ==
    /\ variant = "p000" /\ ~exited
    /\ \E lowOk \in WriteOutcomes :
          SetHopper(stopHopper_000(
              [HopperNow EXCEPT !.hop.stopRun = @ + 1,
                                !.hop.lastLines = 0,
                                !.hop.lastStale = FALSE], lowOk))
    /\ UNCHANGED <<variant, shuttingDown, exited, coinPulseCount,
                   coinIdleTimer, idleOrphans, batchCredits, batchTimer, obs>>

hopperCountWatch_000 ==
    /\ variant = "p000" /\ ~exited
    /\ \E lowOk \in WriteOutcomes :
          SetHopper(onCoinOut_000(
              [NoteCall(HopperNow) EXCEPT !.hop.lastLines = 1], lowOk))
    /\ UNCHANGED <<variant, shuttingDown, exited, coinPulseCount,
                   coinIdleTimer, idleOrphans, batchCredits, batchTimer, obs>>

hopperTimeoutFires_000 ==
    /\ variant = "p000" /\ ~exited
    /\ DeadlinePending
    /\ \E lowOk \in WriteOutcomes :
          SetHopper(stopHopper_000(deadlineTaken(NoteCall(HopperNow)), lowOk))
    /\ UNCHANGED <<variant, shuttingDown, exited, coinPulseCount,
                   coinIdleTimer, idleOrphans, batchCredits, batchTimer, obs>>

-----------------------------------------------------------------------------
(* Shutdown *)

\* shutdown() of part_004 and input.js: exit is scheduled EXIT_DELAY_MS later
shutdown ==
    /\ variant \in {"p004", "input"} /\ ~exited
    /\ IF shuttingDown THEN UNCHANGED vars
       ELSE /\ shuttingDown' = TRUE
            /\ payLine' = 0
            /\ staleChunks' = killMonitor(HopperNow)
            /\ hopperMonitor' = IF hopperMonitor = "proc" THEN "killed"
                                ELSE hopperMonitor
            /\ exitDue' = now + EXIT_DELAY_MS
            /\ UNCHANGED <<variant, exited, coinPulseCount, coinIdleTimer,
                           idleOrphans, batchCredits, batchTimer,
                           hopperActive, hopperTarget, hopperDispensed,
                           hopperTimeout, deadlineOrphans, events, obs, hop,
                           now, coinPulseTimer, lastCoinTime, wobs>>

\* shutdown() of part_003: process.exit(0) runs inside the handler
shutdown_003 ==
    /\ variant = "p003" /\ ~exited
    /\ shuttingDown' = TRUE
    /\ exited' = TRUE
    /\ payLine' = 0
    /\ staleChunks' = killMonitor(HopperNow)
    /\ hopperMonitor' = IF hopperMonitor = "proc" THEN "killed"
                        ELSE hopperMonitor
    /\ UNCHANGED <<variant, coinPulseCount, coinIdleTimer, idleOrphans,
                   batchCredits, batchTimer, hopperActive, hopperTarget,
                   hopperDispensed, hopperTimeout, deadlineOrphans, events,
                   obs, hop>>

\* shutdown() of part_000: clears the timers, writes 0, unwatches the sensor
shutdown_000 ==
    /\ variant = "p000" /\ ~exited
    /\ IF shuttingDown THEN UNCHANGED vars
       ELSE /\ shuttingDown' = TRUE
            /\ coinPulseTimer' = NoTimer
            /\ hopperTimeout' = "null"
            /\ \E lowOk \in BOOLEAN : payLine' = IF lowOk THEN 0 ELSE payLine
            /\ exitDue' = now + EXIT_DELAY_MS
            /\ UNCHANGED <<variant, exited, coinPulseCount, coinIdleTimer,
                           idleOrphans, batchCredits, batchTimer,
                           hopperActive, hopperTarget, hopperDispensed,
                           deadlineOrphans, hopperMonitor, staleChunks,
                           events, obs, hop, now, lastCoinTime, wobs>>

\* the callback of setTimeout(() => process.exit(0), 50)
processExit ==
    /\ variant \in {"p004", "input", "p000"}
    /\ shuttingDown /\ ~exited
    /\ exited' = TRUE
    /\ UNCHANGED <<variant, shuttingDown>>
    /\ UNCHANGED <<coinPulseCount, coinIdleTimer, idleOrphans, batchCredits,
                   batchTimer, events, obs>>
    /\ UNCHANGED hopperVars

-----------------------------------------------------------------------------
(* Window coin path of src/src/input.js and part_000: the first pulse      *)
(* after idle arms a timer of COIN_PULSE_WINDOW_MS, later pulses only      *)
(* count, and the timer callback settles the whole window.                 *)

coinPulseWindowMs ==
    IF variant = "input" THEN COIN_PULSE_WINDOW_MS_input
    ELSE COIN_PULSE_WINDOW_MS_000

\* a minimum interval longer than the window
minCoinIntervalMs_aboveWindow == coinPulseWindowMs + 1

minCoinIntervalMs ==
    IF variant = "input" THEN MIN_COIN_INTERVAL_MS_input
    ELSE MIN_COIN_INTERVAL_MS_000

maxPulsesPerCoin ==
    IF variant = "input" THEN MAX_PULSES_PER_COIN_input
    ELSE MAX_PULSES_PER_COIN_000

\* COIN_PULSE_MAP[pulses] of input.js and of part_000, NONE for undefined
coinPulseMap(pulses) ==
    IF variant = "input"
    THEN (IF pulses \in {5, 10, 20} THEN pulses ELSE NONE)
    ELSE (IF pulses \in {1, 5, 10} THEN pulses ELSE NONE)

\* time the clock advances in one tick
TickMs == coinPulseWindowMs \div TicksPerWindow

\* Date.now() moves on while no handler runs
tick ==
    /\ ~exited
    /\ now + TickMs <= BootTime + MaxTicks * TickMs
    /\ now' = now + TickMs
    /\ UNCHANGED <<variant, shuttingDown, exited, events>>
    /\ UNCHANGED <<coinPulseTimer, lastCoinTime, exitDue, wobs>>
    /\ UNCHANGED coinVars
    /\ UNCHANGED hopperVars

\* handleCoinPulse that arms a new timer on every pulse
handleCoinPulse_win_rearm ==
    /\ variant \in WindowVariants /\ ~exited
    /\ IF shuttingDown THEN UNCHANGED vars
       ELSE /\ coinPulseCount' = coinPulseCount + 1
            /\ coinPulseTimer' = [set |-> TRUE, due |-> now + coinPulseWindowMs]
            /\ wobs' = [wobs EXCEPT !.pulses = @ + 1,
                                    !.open = @ + 1,
                                    !.arms = @ + 1,
                                    !.firstAt = IF coinPulseTimer.set
                                                THEN @ ELSE now]
            /\ UNCHANGED <<variant, shuttingDown, exited, events, now,
                           lastCoinTime, exitDue, coinIdleTimer, idleOrphans,
                           batchCredits, batchTimer, obs>>
            /\ UNCHANGED hopperVars

\* handleCoinPulse() of input.js and part_000
handleCoinPulse_win ==
    /\ variant \in WindowVariants /\ ~exited
    /\ IF shuttingDown THEN UNCHANGED vars
       ELSE /\ coinPulseCount' = coinPulseCount + 1
            /\ IF coinPulseTimer.set
               THEN /\ UNCHANGED coinPulseTimer
                    /\ wobs' = [wobs EXCEPT !.pulses = @ + 1, !.open = @ + 1]
               ELSE /\ coinPulseTimer' =
                           [set |-> TRUE, due |-> now + coinPulseWindowMs]
                    /\ wobs' = [wobs EXCEPT !.pulses = @ + 1,
                                            !.open = @ + 1,
                                            !.arms = @ + 1,
                                            !.firstAt = now]
            /\ UNCHANGED <<variant, shuttingDown, exited, events, now,
                           lastCoinTime, exitDue, coinIdleTimer, idleOrphans,
                           batchCredits, batchTimer, obs>>
            /\ UNCHANGED hopperVars

\* the callback without "if (now - lastCoinTime < MIN_COIN_INTERVAL_MS) return"
windowOutcome_noInterval(pulses) ==
    IF pulses > maxPulsesPerCoin THEN "over"
    ELSE IF Falsy(coinPulseMap(pulses)) THEN "unknown"
    ELSE "coin"

\* which return the timer callback takes for a window of pulses pulses
windowOutcome(pulses) ==
    IF pulses > maxPulsesPerCoin THEN "over"
    ELSE IF now - lastCoinTime < minCoinIntervalMs THEN "early"
    ELSE IF Falsy(coinPulseMap(pulses)) THEN "unknown"
    ELSE "coin"

\* what a run of the timer callback adds to the history
WobsFire(pulses, outcome) ==
    [wobs EXCEPT
       !.fires = @ + 1,
       !.open = 0,
       !.arms = 0,
       !.firstAt = NONE,
       !.lastFireAt = now,
       !.lastGap = IF wobs.lastFireAt = NONE THEN NONE
                   ELSE now - wobs.lastFireAt,
       !.lastGroup = pulses,
       !.lastOutcome = outcome,
       !.coinGap = IF outcome # "coin" THEN @
                   ELSE IF lastCoinTime = 0 THEN NONE
                   ELSE now - lastCoinTime]

\* The callback of coinPulseTimer.  It runs once its due time has come; a
\* timer due later than the process.exit timer of shutdown never runs.
coinPulseTimerFires ==
    /\ variant \in WindowVariants /\ ~exited
    /\ coinPulseTimer.set /\ now >= coinPulseTimer.due
    /\ shuttingDown => coinPulseTimer.due <= exitDue
    /\ LET pulses  == coinPulseCount
           outcome == windowOutcome(pulses)
       IN  /\ coinPulseCount' = 0
           /\ coinPulseTimer' = NoTimer
           /\ IF outcome = "coin"
              THEN /\ lastCoinTime' = now
                   /\ events' = dispatch(events,
                          [type |-> "COIN", value |-> coinPulseMap(pulses)])
              ELSE UNCHANGED <<lastCoinTime, events>>
           /\ wobs' = WobsFire(pulses, outcome)
    /\ UNCHANGED <<variant, shuttingDown, exited, now, exitDue,
                   coinIdleTimer, idleOrphans, batchCredits, batchTimer, obs>>
    /\ UNCHANGED hopperVars

-----------------------------------------------------------------------------
(* Settling of a POST, and a call of the tolerance resolver *)

\* a settle after which the failed payload is dispatched again
fetchSettles_retry(ok) ==
    /\ ~exited
    /\ net.inflight > 0
    /\ net' = [inflight |-> IF ok THEN net.inflight - 1 ELSE net.inflight,
               settled |-> net.settled + 1, lastOk |-> ok]
    /\ events' = IF ok THEN events ELSE Append(events, Last(events))
    /\ UNCHANGED <<variant, shuttingDown, exited, call>>
    /\ UNCHANGED winVars
    /\ UNCHANGED <<coinPulseCount, coinIdleTimer, idleOrphans, batchCredits,
                   batchTimer, obs>>
    /\ UNCHANGED hopperVars

\* "await fetch(...)" of dispatch settles: it resolves, or it throws into
\* the catch block of dispatch, which logs the error
fetchSettles(ok) ==
    /\ ~exited
    /\ net.inflight > 0
    /\ net' = [inflight |-> net.inflight - 1,
               settled |-> net.settled + 1, lastOk |-> ok]
    /\ UNCHANGED <<variant, shuttingDown, exited, events, call>>
    /\ UNCHANGED winVars
    /\ UNCHANGED <<coinPulseCount, coinIdleTimer, idleOrphans, batchCredits,
                   batchTimer, obs>>
    /\ UNCHANGED hopperVars

\* resolveCoinValue(call.arg) is called and returns
resolveCoinValueCall ==
    /\ ~call.done
    /\ call' = [call EXCEPT !.done = TRUE, !.ret = resolveCoinValue(call.arg)]
    /\ UNCHANGED <<variant, shuttingDown, exited, events, net>>
    /\ UNCHANGED winVars
    /\ UNCHANGED <<coinPulseCount, coinIdleTimer, idleOrphans, batchCredits,
                   batchTimer, obs>>
    /\ UNCHANGED hopperVars

-----------------------------------------------------------------------------
(* Specifications *)

Amounts == (0 - 1) .. MaxAmount

\* handleCoinPulse calls explored in the running variant
PulseBound ==
    IF variant = "p003" THEN MAX_PULSES_PER_COIN_003 + MaxPulses
    ELSE MaxPulses

CoinStep ==
    \/ (obs.pulses < PulseBound /\ handleCoinPulse_004 /\ Wire)
    \/ (coinIdleTimerFires_004 /\ Wire)
    \/ (flushBatch /\ Wire)
    \/ (obs.pulses < PulseBound /\ handleCoinPulse_003 /\ Wire)
    \/ (coinIdleTimerFires_003 /\ Wire)

HopperStep ==
    \/ \E amount \in Amounts :
          hop.startCalls < MaxStarts /\ startHopper(amount) /\ Wire
    \/ (hop.stopRun < MaxStops /\ stopHopperCall /\ Wire)
    \/ \E lines \in 1 .. MaxLines : hopperMonitorData(lines) /\ Wire
    \/ \E lines \in 1 .. MaxLines : hopperStaleData(lines) /\ Wire
    \/ (hopperTimeoutFires /\ Wire)
    \/ \E amount \in Amounts :
          hop.startCalls < MaxStarts /\ startHopper_000(amount) /\ Wire
    \/ (hop.stopRun < MaxStops /\ stopHopperCall_000 /\ Wire)
    \/ (hopperCountWatch_000 /\ Wire)
    \/ (hopperTimeoutFires_000 /\ Wire)

ShutdownStep ==
    \/ (shutdown /\ Post)
    \/ (shutdown_003 /\ Wire)
    \/ (shutdown_000 /\ Post)
    \/ (processExit /\ Wire)

\* the coin path alone: no startHopper command arrives
InitCoin == variant \in GapVariants /\ InitState /\ call = NoCall

NextCoin ==
    \/ CoinStep
    \/ (shutdown /\ Post)
    \/ (shutdown_003 /\ Wire)
    \/ (processExit /\ Wire)

SpecCoin == InitCoin /\ [][NextCoin]_vars

\* the hopper path alone: no coin pulse arrives
NextHopper == HopperStep \/ ShutdownStep

SpecHopper == Init /\ [][NextHopper]_vars

\* the hopper path and the batch path of part_004 with their POSTs
InitNet == variant = "p004" /\ InitState /\ call = NoCall

NextNet ==
    \/ (obs.pulses < MaxNetPulses /\ handleCoinPulse_004 /\ Wire)
    \/ (coinIdleTimerFires_004 /\ Wire)
    \/ (flushBatch /\ Wire)
    \/ (hop.startCalls < MaxNetStarts /\ startHopper(MaxAmount) /\ Wire)
    \/ (hop.stopRun < MaxNetStops /\ stopHopperCall /\ Wire)
    \/ \E lines \in 1 .. MaxLines : hopperMonitorData(lines) /\ Wire
    \/ \E lines \in 1 .. MaxLines : hopperStaleData(lines) /\ Wire
    \/ (hopperTimeoutFires /\ Wire)
    \/ (shutdown /\ Post)
    \/ (processExit /\ Wire)
    \/ \E ok \in BOOLEAN : fetchSettles(ok)

SpecNet == InitNet /\ [][NextNet]_vars

\* the window coin path of input.js and part_000 under a running clock
InitWindow == variant \in WindowVariants /\ InitState /\ call = NoCall

NextWindow ==
    \/ (wobs.pulses < MaxWinPulses /\ handleCoinPulse_win /\ Post)
    \/ (coinPulseTimerFires /\ Post)
    \/ (tick /\ Post)
    \/ (shutdown /\ Post)
    \/ (shutdown_000 /\ Post)
    \/ (processExit /\ Wire)

SpecWindow == InitWindow /\ [][NextWindow]_vars

\* payloads the joystick handler handed to dispatch itself
IsPress(e) == e.type \in {"ACTION", "WITHDRAW_REQUEST"}

\* part_004 with its joystick: button events, the coin path they feed, one
\* hopper session, shutdown and the POSTs
NextJoy ==
    \/ \E number \in Buttons, value \in {0, 1} :
          /\ obs.pulses < MaxJoyPulses
          /\ Len(SelectSeq(events, IsPress)) < MaxPresses
          /\ joystickButton_004(number, value) /\ Wire
    \/ (obs.pulses < MaxJoyPulses /\ handleCoinPulse_004 /\ Wire)
    \/ (coinIdleTimerFires_004 /\ Wire)
    \/ (flushBatch /\ Wire)
    \/ (hop.startCalls < MaxNetStarts /\ startHopper(MaxAmount) /\ Wire)
    \/ (hopperTimeoutFires /\ Wire)
    \/ (shutdown /\ Post)
    \/ (processExit /\ Wire)
    \/ \E ok \in BOOLEAN : fetchSettles(ok)

SpecJoy == InitNet /\ [][NextJoy]_vars

\* resolveCoinValue on its own, for every pulse count up to MaxCount
InitResolve ==
    /\ variant = "p004" /\ InitState
    /\ call \in {[NoCall EXCEPT !.arg = p] : p \in 0 .. MaxCount}

NextResolve == resolveCoinValueCall

SpecResolve == InitResolve /\ [][NextResolve]_vars

\* the coin path with the event loop running every timer that stays due
SpecCoinFair ==
    /\ SpecCoin
    /\ WF_vars(coinIdleTimerFires_004 /\ Wire)
    /\ WF_vars(flushBatch /\ Wire)
    /\ WF_vars(coinIdleTimerFires_003 /\ Wire)

\* the hopper path with the event loop running every timer that stays due
SpecHopperFair ==
    /\ SpecHopper
    /\ WF_vars(hopperTimeoutFires /\ Wire)
    /\ WF_vars(hopperTimeoutFires_000 /\ Wire)

\* both paths together
Next ==
    \/ CoinStep \/ HopperStep \/ ShutdownStep
    \/ (wobs.pulses < MaxWinPulses /\ handleCoinPulse_win /\ Post)
    \/ (coinPulseTimerFires /\ Post)
    \/ (tick /\ Post)
    \/ \E number \in Buttons, value \in {0, 1} :
          /\ obs.pulses < PulseBound
          /\ Len(SelectSeq(events, IsPress)) < MaxPresses
          /\ joystickButton_004(number, value) /\ Wire

Spec == Init /\ [][Next]_vars

-----------------------------------------------------------------------------
(* Properties of the coin path, checked under SpecCoin *)

\* no idle timer is pending: no pulse group is open
Quiescent == ~IdlePending

\* C1 (as stated): once a sequence of N >= 1 handleCoinPulse calls, none of
\* them separated from the previous one by an idle-timer run, has drained,
\* the idle timer has run exactly once since the last call and the one
\* group it finalized has pulse count N.
C1_OneGroupOfN ==
    (Quiescent /\ obs.seqLen >= 1 /\ obs.seqOk)
        => (obs.fires = 1 /\ obs.lastFinal = obs.seqLen)

\* C1 (amended): the same, for N up to MAX_PULSES_PER_COIN in the variant
\* that resets an overflowing group (part_003); for every N in part_004.
C1_OneGroupOfN_UpToLimit ==
    (/\ Quiescent /\ obs.seqLen >= 1 /\ obs.seqOk
     /\ (variant = "p003" => obs.seqLen <= MAX_PULSES_PER_COIN_003))
        => (obs.fires = 1 /\ obs.lastFinal = obs.seqLen)

C1_Witness ==
    /\ variant = "p003" /\ Quiescent /\ obs.seqOk
    /\ obs.seqLen = MAX_PULSES_PER_COIN_003
    /\ obs.fires = 1 /\ obs.lastFinal = MAX_PULSES_PER_COIN_003

\* C2: while every handleCoinPulse call so far has found no idle timer
\* pending (the timer ran between any two pulses), every finalized group
\* has pulse count 1 and every pulse has its own group: the groups
\* finalized, plus the one still open, number the pulses.
C2_SpacedPulsesOwnGroup ==
    obs.spaced =>
        /\ ~obs.notOne
        /\ obs.groups + (IF IdlePending THEN 1 ELSE 0) = obs.pulses

C2_Witness ==
    /\ variant = "p004" /\ obs.spaced /\ Quiescent
    /\ obs.pulses >= 3 /\ obs.groups = obs.pulses

\* C3 (as stated): a finalizeCoin run whose pulse count the Credit Resolver
\* of the variant maps to none hands no event to dispatch and adds nothing
\* to batchCredits.
C3_NoCreditForUnresolved ==
    [][(obs'.fires = obs.fires + 1 /\ Falsy(Resolve(obs'.lastFinal)))
          => (batchCredits' = batchCredits /\ events' = events)]_vars

\* C4: the credits of the COIN payloads handed to dispatch plus the
\* pending batchCredits equal the credits finalizeCoin has accepted.
C4_CreditsPendingOrFlushedOnce ==
    SumCredits(events) + batchCredits = obs.added

C4_Witness ==
    /\ variant = "p004" /\ shuttingDown
    /\ obs.flushes >= 1 /\ batchCredits > 0
    /\ \E i \in 1 .. Len(events) : ~events[i].sent

\* C5: in part_004 the coins finalized between two runs of the flush timer
\* give exactly one COIN payload, emitted by that run, whose credits are
\* the sum of their values.
C5_OneEventPerBatch ==
    variant = "p004" =>
        /\ Len(events) = obs.flushes
        /\ events # <<>> =>
              /\ Last(events).type = "COIN"
              /\ Last(events).value = SumSeq(obs.lastBatch)

C5_Witness ==
    /\ variant = "p004"
    /\ obs.lastBatch = <<2, 3>>
    /\ Len(events) = 1 /\ Last(events).value = 5

-----------------------------------------------------------------------------
(* Properties of the hopper path, checked under SpecHopper *)

IsWC(e) == e.type = "WITHDRAW_COMPLETE"

\* WITHDRAW_COMPLETE payloads handed to dispatch since the session opened
SessWC == Len(SelectSeq(SubSeq(events, hop.sessBase + 1, Len(events)), IsWC))

\* dispensed value of the last WITHDRAW_COMPLETE payload
LastWC ==
    LET w == SelectSeq(events, IsWC)
    IN  IF w = <<>> THEN NONE ELSE Last(w).value

\* C6: a session with target > 0 never stays open with dispensed >= target,
\* and once it has closed with dispensed >= target it has given exactly one
\* WITHDRAW_COMPLETE, carrying the target; stopHopper drove the actuator
\* low once; at most one deadline timer was scheduled, it never ran and it
\* is not pending.
C6_CompletionAtTarget ==
    /\ (hopperActive /\ hopperTarget > 0) => hopperDispensed < hopperTarget
    /\ (/\ ~hopperActive /\ hop.sessions >= 1
        /\ hopperTarget > 0 /\ hopperDispensed >= hopperTarget)
         => /\ SessWC = 1
            /\ LastWC = hopperTarget
            /\ hop.sessLow = 1
            /\ hop.sessArmed <= 1
            /\ hop.sessFired = 0
            /\ ~Pending(hopperTimeout)

C6_Witness ==
    /\ variant = "p004" /\ ~shuttingDown
    /\ ~hopperActive /\ hop.sessions = 1
    /\ hopperTarget = 2 /\ hopperDispensed = 2
    /\ SessWC = 1 /\ LastWC = 2 /\ hop.sessArmed = 1

\* C7: a deadline callback closes the session; when it ran with nothing
\* dispensed, the session has given exactly one WITHDRAW_COMPLETE, with
\* dispensed = 0, and (gpioset variants) the actuator line is low.
C7_JamReportsZero ==
    /\ hop.sessFired >= 1 => ~hopperActive
    /\ (hop.sessFired >= 1 /\ hopperTarget > 0 /\ hopperDispensed = 0)
         => /\ SessWC = 1
            /\ LastWC = 0
            /\ variant \in SpawnVariants => payLine = 0

C7_Witness ==
    /\ variant = "input" /\ ~shuttingDown
    /\ hop.sessFired = 1 /\ ~hopperActive
    /\ hopperTarget = 2 /\ hopperDispensed = 0
    /\ SessWC = 1 /\ LastWC = 0 /\ payLine = 0

\* C8: a direct stopHopper call made while Idle changes nothing, issues no
\* actuator operation and hands nothing to dispatch; one made while
\* Dispensing hands over exactly one WITHDRAW_COMPLETE.  So two calls in a
\* row give one event.
C8_StopIdempotent ==
    [][hop'.stopRun = hop.stopRun + 1 =>
          IF hopperActive
          THEN /\ Len(events') = Len(events) + 1
               /\ IsWC(Last(events'))
               /\ ~hopperActive'
          ELSE /\ UNCHANGED <<hopperActive, hopperTarget, hopperDispensed,
                              hopperTimeout, hopperMonitor, staleChunks,
                              payLine, events>>
               /\ hop'.sessLow = hop.sessLow]_vars

C8_Witness ==
    /\ variant \in SpawnVariants /\ ~shuttingDown
    /\ hop.stopRun = 2 /\ hop.sessions = 1 /\ ~hopperActive
    /\ hop.sessFired = 0 /\ hopperDispensed < hopperTarget
    /\ SessWC = 1 /\ Len(events) = 1

\* C9: a startHopper call made while Dispensing changes neither the
\* session nor the pending deadline, creates no timer and no monitor,
\* issues no actuator operation and hands nothing to dispatch.
C9_StartWhileDispensingNoOp ==
    [][(hop'.startCalls = hop.startCalls + 1 /\ hopperActive) =>
          /\ UNCHANGED <<hopperActive, hopperTarget, hopperDispensed,
                         hopperTimeout, hopperMonitor, staleChunks,
                         payLine, events>>
          /\ hop'.sessions = hop.sessions
          /\ hop'.sessHigh = hop.sessHigh
          /\ hop'.sessArmed = hop.sessArmed
          /\ hop'.sessMon = hop.sessMon]_vars

C9_Witness ==
    /\ ~shuttingDown /\ hopperActive
    /\ hop.startCalls = 2 /\ hop.sessions = 1
    /\ hop.lastAmount # hopperTarget
    /\ hop.sessHigh = 1 /\ hop.sessArmed = 1

\* C10 (as stated): a startHopper call with amount <= 0 made while Idle
\* leaves the controller Idle, issues no actuator operation, schedules no
\* deadline timer and hands nothing to dispatch.
C10_NonPositiveStartNoOp ==
    [][(/\ hop'.startCalls = hop.startCalls + 1
        /\ hop'.lastAmount <= 0 /\ ~hopperActive) =>
          /\ ~hopperActive'
          /\ payLine' = payLine
          /\ hop'.sessions = hop.sessions
          /\ hopperTimeout' = hopperTimeout
          /\ events' = events]_vars

\* no session has been opened with a target <= 0
ValidTarget == hop.sessions = 0 \/ hopperTarget > 0

\* C11 (as stated): in every reachable state, shutdown included (sessions
\* opened with target > 0), hopperActive implies a pending deadline timer
\* and the payout line high; ~hopperActive implies the payout line low and
\* no pending deadline timer.
C11_SessionInvariant ==
    ValidTarget =>
        /\ hopperActive => (Pending(hopperTimeout) /\ payLine = 1)
        /\ ~hopperActive => (payLine = 0 /\ ~Pending(hopperTimeout))

\* a session is over once it is closed or shutdown has been requested
SessionOver == hop.sessions >= 1 /\ (~hopperActive \/ shuttingDown)

\* C12 (as stated): a session that is over, whether by reaching the target,
\* by the deadline or by a shutdown request while active, has handed
\* exactly one WITHDRAW_COMPLETE to dispatch, carrying its dispensed count.
C12_OneCompletionPerSession ==
    (ValidTarget /\ SessionOver) => (SessWC = 1 /\ LastWC = hopperDispensed)

\* C13 (as stated): once shutdown has been called, and while the process
\* has not exited, the payout line is low and no coin idle timer, batch
\* flush timer or hopper deadline timer is pending any more, so none of
\* their callbacks can run.
C13_ShutdownCancelsTimers ==
    (ValidTarget /\ shuttingDown /\ ~exited) =>
        /\ payLine = 0
        /\ ~Pending(coinIdleTimer) /\ idleOrphans = 0
        /\ ~Pending(batchTimer)
        /\ ~Pending(hopperTimeout)

\* the step hands a WITHDRAW_COMPLETE with dispensed < target to dispatch
ShortCompletion ==
    /\ Len(events') = Len(events) + 1
    /\ IsWC(Last(events'))
    /\ Last(events').value < hopperTarget'

\* the step is a direct stopHopper call (the caller's own cancellation)
DirectStop == hop'.stopRun = hop.stopRun + 1

\* the step is a run of the deadline callback
DeadlineRun == hop'.sessFired = hop.sessFired + 1

\* the step is a startHopper call whose actuator enable failed: the session
\* was opened and closed inside the call
EnableFailed == hop'.sessions = hop.sessions + 1 /\ ~hopperActive'

\* C14 (as stated): a WITHDRAW_COMPLETE with dispensed < target that the
\* controller emits on its own (not on a direct stopHopper call) is emitted
\* by the deadline callback.
C14_OnlyDeadlineEndsShort ==
    [][(ShortCompletion /\ ~DirectStop) => DeadlineRun]_vars

\* C14 (amended): such a WITHDRAW_COMPLETE is emitted by the deadline
\* callback or by a startHopper call whose actuator enable failed.
C14_OnlyDeadlineOrEnableFailureEndsShort ==
    [][(ShortCompletion /\ ~DirectStop) => (DeadlineRun \/ EnableFailed)]_vars

C14_Witness ==
    /\ variant = "p000" /\ ~shuttingDown
    /\ hop.sessions = 1 /\ ~hopperActive
    /\ hop.sessArmed = 0 /\ hop.sessFired = 0 /\ hop.stopRun = 0
    /\ hopperTarget = 2 /\ SessWC = 1 /\ LastWC = 0

\* C15 (as stated): the deadline delay grows with the target: when a
\* session with target t2 is opened after one with a smaller target
\* 0 < t1 < t2, its deadline timer is scheduled with a longer delay.
C15_DeadlineGrowsWithTarget ==
    [][(/\ hop'.sessions = hop.sessions + 1 /\ hop'.sessArmed = 1
        /\ hop.sessions >= 1 /\ hop.sessDelay > 0
        /\ 0 < hopperTarget /\ hopperTarget < hopperTarget')
          => hop.sessDelay < hop'.sessDelay]_vars

-----------------------------------------------------------------------------
(* Properties of the coin timers and of the credit resolvers *)

\* idle-timer callbacks still on the event loop
PendingIdleTimers == idleOrphans + (IF Pending(coinIdleTimer) THEN 1 ELSE 0)

\* C16 (as stated): at most one coin idle timer is pending in every
\* reachable state (the batch timer and the deadline timer are held by one
\* variable each, cleared before it is re-armed).
C16_OneTimerPerEntity == PendingIdleTimers <= 1

\* the running burst (the pulses since the coin path was last quiescent,
\* none separated from the previous one by an idle-timer run that closed
\* the burst) has passed MAX_PULSES_PER_COIN in the variant enforcing it
BurstOverflowed ==
    variant = "p003" /\ obs.seqLen > MAX_PULSES_PER_COIN_003

\* C17 (as stated): once a burst has overflowed, no finalizeCoin run takes
\* any of its pulses, and no COIN payload and no credit comes of it.
C17_OverflowedBurstDiscarded ==
    [][BurstOverflowed =>
          /\ (obs'.fires = obs.fires + 1 => obs'.lastFinal = 0)
          /\ events' = events
          /\ obs'.added = obs.added]_vars

\* C18: in the exact-table variant every finalizeCoin run that takes a
\* count of 5, 10 or 20 hands dispatch one COIN payload with that many
\* credits, and a run that takes any other count hands it nothing.
C18_ExactTableResolver ==
    [][(variant = "p003" /\ obs'.fires = obs.fires + 1) =>
          IF obs'.lastFinal \in {5, 10, 20}
          THEN /\ Len(events') = Len(events) + 1
               /\ SubSeq(events', 1, Len(events)) = events
               /\ Last(events').type = "COIN"
               /\ Last(events').value = obs'.lastFinal
               /\ obs'.added = obs.added + obs'.lastFinal
          ELSE /\ events' = events
               /\ obs'.added = obs.added]_vars

C18_Witness ==
    /\ variant = "p003"
    /\ Len(events) = 1 /\ events[1].type = "COIN" /\ events[1].value = 10
    /\ obs.fires = 1 /\ obs.lastFinal = 7 /\ obs.added = 10

\* distance of a pulse count from the nominal count of denomination i
Delta(p, i) == Abs(p - COIN_DENOMINATIONS[i].pulses)

\* the denominations within PULSE_TOLERANCE of p
WithinTolerance(p) ==
    {i \in 1 .. Len(COIN_DENOMINATIONS) : Delta(p, i) <= PULSE_TOLERANCE}

\* the nearest of them, the smaller nominal count winning a tie
Nearest(p) ==
    CHOOSE i \in WithinTolerance(p) :
        \A j \in WithinTolerance(p) :
            \/ Delta(p, i) < Delta(p, j)
            \/ /\ Delta(p, i) = Delta(p, j)
               /\ COIN_DENOMINATIONS[i].pulses <= COIN_DENOMINATIONS[j].pulses

\* C19: for every pulse count p up to MaxCount, resolveCoinValue(p) returns
\* the value of the denomination nearest to p among those within
\* PULSE_TOLERANCE (smaller nominal count on a tie), and null when no
\* denomination is within tolerance.
C19_ToleranceResolver ==
    call.done =>
        call.ret = IF WithinTolerance(call.arg) = {} THEN NONE
                   ELSE COIN_DENOMINATIONS[Nearest(call.arg)].value

C19_Witness ==
    /\ call.done /\ call.arg = 12 /\ call.ret = 10
    /\ WithinTolerance(13) = {}

-----------------------------------------------------------------------------
(* Properties of dispatch, checked under SpecNet *)

\* C20: the settling of a POST, whether fetch resolved or threw, changes
\* nothing of the coin, batch and hopper state, hands nothing to dispatch
\* again (no retry) and only takes the POST off the ones in flight.
C20_DispatchOutcomeNoFeedback ==
    [][net'.settled = net.settled + 1 =>
          /\ UNCHANGED <<shuttingDown, exited, coinPulseCount, coinIdleTimer,
                         idleOrphans, batchCredits, batchTimer, hopperActive,
                         hopperTarget, hopperDispensed, hopperTimeout,
                         hopperMonitor, staleChunks, payLine, events>>
          /\ net'.inflight = net.inflight - 1]_vars

C20_Witness ==
    /\ variant = "p004" /\ ~shuttingDown
    /\ net.settled = 2 /\ ~net.lastOk /\ net.inflight = 0
    /\ Len(events) = 2 /\ batchCredits = 0 /\ ~hopperActive
    /\ \E i \in 1 .. 2 : events[i].type = "COIN"
    /\ \E i \in 1 .. 2 : IsWC(events[i])

-----------------------------------------------------------------------------
(* Progress of the hopper path, checked under SpecHopperFair *)

\* the last session is closed and has handed dispatch one WITHDRAW_COMPLETE
\* carrying its dispensed count
SessionCompleted ==
    ~hopperActive /\ SessWC = 1 /\ LastWC = hopperDispensed

\* C21 (as stated): with the event loop running every deadline timer that
\* stays due, every state with hopperActive = TRUE is followed by one in
\* which the controller is Idle and the session's WITHDRAW_COMPLETE, with
\* the count dispensed, has been handed to dispatch.
C21_SessionEventuallyEnds == hopperActive ~> SessionCompleted

-----------------------------------------------------------------------------
(* Properties of the batch flush and progress of the coin path *)

\* the step is a run of the batch timer's callback: the timer was due and
\* is spent afterwards (finalizeCoin leaves a pending timer behind)
FlushRun == batchTimer = "live" /\ ~Pending(batchTimer')

\* the COIN payloads of a log all carry credits > 0
CoinCreditsPositive(log) ==
    \A i \in 1 .. Len(log) : log[i].type = "COIN" => log[i].value > 0

\* C22: a run of the flush timer with batchCredits > 0 hands dispatch
\* exactly one COIN payload carrying batchCredits and leaves batchCredits = 0
\* with no flush timer pending; batchCredits is never negative and no COIN
\* payload carries credits <= 0.
C22_FlushEmitsBatchOnce ==
    [][/\ (FlushRun /\ batchCredits > 0) =>
             /\ Len(events') = Len(events) + 1
             /\ SubSeq(events', 1, Len(events)) = events
             /\ Last(events').type = "COIN"
             /\ Last(events').value = batchCredits
             /\ batchCredits' = 0
             /\ ~Pending(batchTimer')
       /\ batchCredits' >= 0
       /\ CoinCreditsPositive(events')]_vars

C22_Witness ==
    /\ variant = "p004" /\ ~shuttingDown
    /\ obs.flushes = 2 /\ Len(events) = 2
    /\ events[1].value = 1 /\ events[2].value = 3
    /\ batchCredits = 0 /\ batchTimer = "null"

\* nothing is open on the coin path
Drained ==
    /\ coinPulseCount = 0 /\ PendingIdleTimers = 0
    /\ batchCredits = 0 /\ ~Pending(batchTimer)

\* C23 (as stated): with the event loop running every timer that stays due,
\* an open pulse group or a non-zero batch is always followed by a state in
\* which the count is 0, the batch is 0 and no coin timer is pending.
C23_CoinPathDrains == ~Drained ~> Drained

\* C23 (amended): the same, unless shutdown is requested first.
C23_CoinPathDrainsUnlessShutdown == ~Drained ~> (Drained \/ shuttingDown)

C23_Witness ==
    /\ variant = "p004" /\ ~shuttingDown /\ Drained
    /\ obs.pulses = 3 /\ obs.flushes = 1
    /\ Len(events) = 1 /\ Last(events).value = 3

\* C24 (as stated): a finalizeCoin run takes exactly the pulses counted
\* since the previous finalizeCoin or reset, and it is run by the
\* idle timer armed by the group's last pulse, never by an earlier timer
\* that a later pulse replaced: once it has run no idle timer is pending.
C24_FinalizeTakesWholeGroup ==
    [][obs'.fires = obs.fires + 1 =>
          /\ obs'.lastFinal = obs.open
          /\ PendingIdleTimers' = 0]_vars

\* the step delivers coin-out lines: a stdout chunk of the running or of a
\* killed gpiomon child, or one run of the watch callback of part_000
CoinOutDelivered ==
    \/ \E lines \in 1..MaxLines : hopperMonitorData(lines)
    \/ \E lines \in 1..MaxLines : hopperStaleData(lines)
    \/ hopperCountWatch_000

\* the step delivers a stdout chunk of a killed gpiomon child
StaleDelivered == \E lines \in 1..MaxLines : hopperStaleData(lines)

\* C25: a coin-out delivered while hopperActive is false leaves
\* hopperActive, hopperTarget, hopperDispensed, the deadline timer, the
\* gpiomon child and the payout line as they were, and hands nothing to
\* dispatch.
C25_CoinOutWhileIdleIgnored ==
    [][(~hopperActive /\ CoinOutDelivered) =>
          UNCHANGED <<hopperActive, hopperTarget, hopperDispensed,
                      hopperTimeout, deadlineOrphans, hopperMonitor,
                      payLine, events>>]_vars

\* a session was stopped short of its target by a direct stopHopper call,
\* and the last call delivered coin-out lines after that
C25_Witness ==
    /\ hop.sessions = 1 /\ ~hopperActive /\ ~shuttingDown
    /\ hop.lastLines > 0
    /\ hop.sessFired = 0
    /\ hopperTarget = 2 /\ hopperDispensed = 1
    /\ SessWC = 1 /\ LastWC = 1 /\ Len(events) = 1
    /\ payLine = 0

\* the WITHDRAW_COMPLETE payloads handed to dispatch so far
Completions == SelectSeq(events, IsWC)

C27_NoOverCount ==
    (hop.sessions >= 1 /\ hopperTarget >= 1) => hopperDispensed <= hopperTarget

\* the running gpiomon child delivered a 2-line chunk to a session with
\* target 1: the session closed on the first line
C27_Witness ==
    /\ hop.lastLines = 2 /\ ~hop.lastStale
    /\ hop.sessions = 1 /\ hopperTarget = 1
    /\ hopperDispensed = 1 /\ ~hopperActive
    /\ SessWC = 1 /\ LastWC = 1

\* C28 (as stated): a chunk written by the gpiomon child of a session that
\* stopHopper closed never changes hopperDispensed, whether or not a later
\* session (with a positive target) is open when the chunk is delivered.
C28_StaleDataNeverCounts ==
    [][(StaleDelivered /\ ~shuttingDown /\ hopperTarget > 0) =>
          hopperDispensed' = hopperDispensed]_vars

\* C29: no deadline timer is pending outside the variable hopperTimeout,
\* none is pending once the session is closed, and a deadline callback
\* runs only while a session is active, for the timer armed by that
\* session and once.
C29_DeadlineIsolation ==
    /\ [](deadlineOrphans = 0)
    /\ []((~hopperActive /\ ~shuttingDown) => ~Pending(hopperTimeout))
    /\ [][DeadlineRun =>
             (hopperActive /\ hop.sessArmed = 1 /\ hop.sessFired = 0)]_vars

\* a first session reached its target of 2, a second one was opened after
\* it and was closed by its own deadline
C29_Witness ==
    /\ hop.sessions = 2 /\ ~hopperActive /\ ~shuttingDown
    /\ hop.sessFired = 1 /\ hop.sessArmed = 1
    /\ Len(Completions) = 2 /\ Completions[1].value = 2
    /\ hopperTimeout = "null"

\* C30: once shuttingDown is set no step opens a session or takes the
\* payout line from low to high.
C30_NoPayoutAfterShutdown ==
    [][shuttingDown =>
          /\ hop'.sessions = hop.sessions
          /\ (payLine' = 1 => payLine = 1)]_vars

\* startHopper was called once, after shutdown and before the exit, and
\* opened nothing
C30_Witness ==
    /\ shuttingDown /\ ~exited
    /\ hop.startCalls = 1 /\ hop.sessions = 0
    /\ ~hopperActive /\ payLine = 0

-----------------------------------------------------------------------------
(* Shutdown and the outbound events of part_004, checked under SpecJoy *)

\* POSTs started so far
Posted == net.inflight + net.settled

\* the coin state of part_004
coinState == <<coinPulseCount, coinIdleTimer, idleOrphans, batchCredits,
               batchTimer>>

\* the step is a handleCoinPulse call or a joystick 'button' event
PulseOrButton ==
    \/ handleCoinPulse_004
    \/ \E number \in Buttons, value \in {0, 1} :
          joystickButton_004(number, value)

\* C31: once shuttingDown is set no step starts a POST: every payload
\* handed to dispatch from then on is dropped, whatever its type; and a
\* handleCoinPulse call or a joystick button event leaves the coin state
\* and the dispatch log as they were.
C31_NothingSentAfterShutdown ==
    [][shuttingDown =>
          /\ Posted' = Posted
          /\ \A i \in (Len(events) + 1) .. Len(events') : ~Sent(events'[i])
          /\ (PulseOrButton => UNCHANGED <<coinState, events>>)]_vars

\* a button press was sent before shutdown; after it, and before the exit,
\* the batch timer handed a COIN and the deadline a WITHDRAW_COMPLETE to
\* dispatch, and both were dropped
C31_Witness ==
    /\ shuttingDown /\ ~exited
    /\ Len(events) = 3
    /\ events[1].type = "ACTION" /\ Sent(events[1])
    /\ \E i \in 2 .. 3 : events[i].type = "COIN" /\ ~Sent(events[i])
    /\ \E i \in 2 .. 3 : IsWC(events[i]) /\ ~Sent(events[i])
    /\ Posted = 1

-----------------------------------------------------------------------------
(* Properties of the window coin path, checked under SpecWindow *)

\* the step is a handleCoinPulse call that passed the shuttingDown guard
WindowPulse == wobs'.pulses = wobs.pulses + 1

\* the step is a run of the coinPulseTimer callback
WindowFire == wobs'.fires = wobs.fires + 1

\* C32: a handleCoinPulse call that finds the timer pending leaves it as it
\* is; the callback runs no sooner than COIN_PULSE_WINDOW_MS after the
\* call that armed the timer, which was the only one to arm it; it takes
\* every pulse counted since that call as one group, leaves
\* coinPulseCount = 0 and coinPulseTimer = null, and hands dispatch at most
\* one payload.
C32_FixedWindowGroupsOnce ==
    /\ [][(WindowPulse /\ coinPulseTimer.set) =>
             coinPulseTimer' = coinPulseTimer]_vars
    /\ [][WindowFire =>
             /\ wobs.arms = 1
             /\ now >= wobs.firstAt + coinPulseWindowMs
             /\ wobs'.lastGroup = wobs.open
             /\ coinPulseCount' = 0
             /\ coinPulseTimer' = NoTimer
             /\ Len(events') <= Len(events) + 1]_vars

\* input.js: the five pulses of one window were taken
\* as one group by the callback, which handed dispatch one COIN of 5
C32_Witness ==
    /\ variant = "input"
    /\ wobs.fires = 1 /\ wobs.lastGroup = 5 /\ wobs.pulses = 5
    /\ wobs.lastFireAt = BootTime + COIN_PULSE_WINDOW_MS_input + TickMs
    /\ coinPulseCount = 0 /\ ~coinPulseTimer.set
    /\ Len(events) = 1 /\ events[1].type = "COIN" /\ events[1].value = 5

\* C33: in input.js two consecutive runs of the timer callback are at
\* least COIN_PULSE_WINDOW_MS apart, no run returns at the minimum-interval
\* check, and a run that takes a pulse count found in COIN_PULSE_MAP (such
\* a count is within MAX_PULSES_PER_COIN) hands dispatch one COIN carrying
\* the mapped credits.
C33_IntervalCheckNeverRejects ==
    [][(variant = "input" /\ WindowFire) =>
          /\ (wobs'.lastGap = NONE \/ wobs'.lastGap >= COIN_PULSE_WINDOW_MS_input)
          /\ now - lastCoinTime >= MIN_COIN_INTERVAL_MS_input
          /\ wobs'.lastOutcome # "early"
          /\ (~Falsy(coinPulseMap(coinPulseCount)) =>
                /\ coinPulseCount <= MAX_PULSES_PER_COIN_input
                /\ Len(events') = Len(events) + 1
                /\ Last(events').type = "COIN"
                /\ Last(events').value = coinPulseMap(coinPulseCount))]_vars

\* input.js: two windows of five pulses, the second armed in the tick the
\* first one's callback ran, each gave a COIN of 5
C33_Witness ==
    /\ variant = "input" /\ ~shuttingDown
    /\ wobs.fires = 2 /\ wobs.pulses = 10
    /\ wobs.lastGap = COIN_PULSE_WINDOW_MS_input
    /\ wobs.coinGap = COIN_PULSE_WINDOW_MS_input
    /\ Len(events) = 2
    /\ \A i \in 1 .. 2 : events[i].type = "COIN" /\ events[i].value = 5

\* C34: in part_000 a run of the timer callback less than
\* MIN_COIN_INTERVAL_MS after lastCoinTime hands dispatch nothing and
\* leaves lastCoinTime as it is, whatever its pulse count; and two
\* consecutive COIN payloads are at least MIN_COIN_INTERVAL_MS apart.
C34_EarlyGroupDropped ==
    /\ [][(variant = "p000" /\ WindowFire
           /\ now - lastCoinTime < MIN_COIN_INTERVAL_MS_000) =>
             UNCHANGED <<events, lastCoinTime>>]_vars
    /\ []((variant = "p000" /\ wobs.coinGap # NONE) =>
             wobs.coinGap >= MIN_COIN_INTERVAL_MS_000)

\* part_000: a window of one pulse gave a COIN; the next window, again of
\* one pulse (a count COIN_PULSE_MAP holds), ended COIN_PULSE_WINDOW_MS
\* later and was dropped
C34_Witness ==
    /\ variant = "p000" /\ ~shuttingDown
    /\ wobs.fires = 2 /\ wobs.pulses = 2
    /\ wobs.lastGroup = 1 /\ wobs.lastOutcome = "early"
    /\ wobs.lastGap = COIN_PULSE_WINDOW_MS_000
    /\ Len(events) = 1 /\ events[1].type = "COIN"
    /\ lastCoinTime = wobs.lastFireAt - COIN_PULSE_WINDOW_MS_000

-----------------------------------------------------------------------------
(* The failed actuator enable of part_000, checked under SpecHopper *)

\* C35: a startHopper call of part_000 whose writeSync(1) throws closes the
\* session inside the call: stopHopper issues its one write of 0 and the
\* line is not raised, hopperActive is false, no deadline timer was
\* scheduled or is pending, and dispatch got exactly one WITHDRAW_COMPLETE,
\* with dispensed = 0, which it sent; until the next session opens none of
\* this changes.
C35_EnableFailureStopsAtOnce ==
    /\ [][EnableFailed =>
             /\ variant = "p000"
             /\ ~hopperActive' /\ hopperDispensed' = 0
             /\ hop'.sessLow = 1 /\ payLine' \in {0, payLine}
             /\ hop'.sessArmed = 0 /\ ~Pending(hopperTimeout')
             /\ deadlineOrphans' = 0
             /\ Len(events') = Len(events) + 1
             /\ IsWC(Last(events')) /\ Last(events').value = 0
             /\ Sent(Last(events'))]_vars
    /\ []((variant = "p000" /\ hop.sessions >= 1 /\ hop.sessArmed = 0) =>
             /\ ~hopperActive /\ ~Pending(hopperTimeout)
             /\ SessWC = 1 /\ LastWC = 0)

\* part_000: the second startHopper call, for 1 coin, failed to enable the
\* actuator after a first session had paid out 2
C35_Witness ==
    /\ variant = "p000" /\ ~shuttingDown
    /\ hop.sessions = 2 /\ hop.sessArmed = 0 /\ ~hopperActive
    /\ hopperTarget = 1 /\ hopperDispensed = 0
    /\ payLine = 0 /\ hopperTimeout = "null"
    /\ Len(Completions) = 2
    /\ Completions[1].value = 2 /\ Completions[2].value = 0

=============================================================================
